---- MODULE Spec2Model ----
(***************************************************************************)
(* Model of illuminate/illuminate.py: class IlluminateController.          *)
(*                                                                         *)
(* The controller talks to an LED array over a serial link.  The link is   *)
(* two streams: tx (how many lines the host has written that the device    *)
(* has not answered yet; the device is opaque, its answer does not depend  *)
(* on the line) and rx (bytes the device has sent that the host has not    *)
(* read yet).  Text is modelled as a sequence of string tokens: the        *)
(* dot-separated fields of a command, the command terminator, the          *)
(* response terminator, the marker ERROR and ordinary payload text.        *)
(*                                                                         *)
(* The program is single threaded.  An API call is started by a call       *)
(* action (task = "none" before it) and then runs step by step; each call  *)
(* of the serial library (read_all, write, read_until) is one step, so     *)
(* that the device, which answers asynchronously, can act between them.    *)
(***************************************************************************)
EXTENDS Integers, Sequences, FiniteSets, TLC

VARIABLES
    is_open,                          \* self.interface.is_open
    rx,                               \* bytes received from the device, unread
    tx,                               \* number of lines written that the device has not answered yet
    color_channels,                   \* self.color_channels
    illumination_sequence_bit_depth,  \* self.illumination_sequence_bit_depth (0: attribute not set)
    state_sequence,                   \* the caller's frame sequences, passed to preloadSequence
    state_sequence_preload,           \* self.state_sequence_preload (<<>>: not set)
    task,                             \* the API call in progress, "none" when idle
    pc,                               \* position inside the call
    cur,                              \* arguments of the command() in progress
    todo,                             \* commands the current loop iteration still has to send
    fs_index,                         \* position of the outer loop of preloadSequence
    pattern_index,                    \* position of the inner loop of preloadSequence
    contiguous_zero_count,            \* local of preloadSequence
    call,                             \* the last API call started and its arguments
    log,                              \* serial library calls made by the last command(), flush() or response()
    sent,                             \* what the last API call has written to the port, in order
    result,                           \* outcome of the last API call; while a call runs, the value its last command() returned
    trigger_output_settings,          \* self.trigger_output_settings
    trigger_input_settings,           \* self.trigger_input_settings
    bit_depth,                        \* self.bit_depth
    device_name,                      \* self.device_name
    led_count,                        \* self.led_count
    color_channel_center_wavelengths, \* self.color_channel_center_wavelengths
    time_sequence_s,                  \* the caller's frame times (s), passed to preloadSequence
    time_sequence_s_preload,          \* self.time_sequence_s_preload
    sequence_dt_ms,                   \* self.sequence_dt_ms, a fraction <<numerator, denominator>> (<<>>: None)
    use_fast_sequence,                \* self.use_fast_sequence
    min_sequence_dt_ms,               \* self.min_sequence_dt_ms (-1: attribute not set)
    trigger_frame_time_s,             \* self.trigger_frame_time_s (<<>>: attribute not set)
    state_index,                      \* self.state_index (-1: attribute not set)
    sequence_loaded                   \* a preloadSequence has returned and no sequenceReset has returned since

capVars == <<trigger_output_settings, trigger_input_settings, bit_depth, device_name,
             led_count, color_channel_center_wavelengths>>
cfgVars == <<use_fast_sequence, min_sequence_dt_ms, trigger_frame_time_s>>
timeVars == <<time_sequence_s, time_sequence_s_preload, sequence_dt_ms>>
contVars == <<state_index, sequence_loaded>>

vars == <<is_open, rx, tx, color_channels, illumination_sequence_bit_depth,
          state_sequence, state_sequence_preload, task, pc, cur, todo, fs_index, pattern_index,
          contiguous_zero_count, call, log, sent, result, capVars, cfgVars, timeVars, contVars>>

linkVars == <<is_open, rx, tx>>
attrVars == <<color_channels, illumination_sequence_bit_depth, state_sequence, state_sequence_preload>>
loopVars == <<todo, fs_index, pattern_index, contiguous_zero_count>>

----------------------------------------------------------------------------
(* Bounds *)

MaxFrames == 3      \* longest list of time-point patterns in a frame sequence
MaxTx == 1          \* a command that does not await its answer is issued with fewer unanswered lines than this
MaxNum == 9         \* largest number whose decimal text is parsed back

----------------------------------------------------------------------------
(* Text *)

response_terminator == "-==-\n"
command_terminator == "\n"
ERROR == "ERROR"

Digits == <<"0", "1", "2", "3", "4", "5", "6", "7", "8", "9">>

RECURSIVE Str(_)
Str(n) == IF n < 10 THEN Digits[n + 1] ELSE Str(n \div 10) \o Digits[(n % 10) + 1]

ParseInt(s) == CHOOSE n \in 0..MaxNum : Str(n) = s

Contains(s, tok) == \E i \in 1..Len(s) : s[i] = tok

IndexOf(s, tok) == CHOOSE i \in 1..Len(s) : s[i] = tok /\ \A j \in 1..(i - 1) : s[j] # tok

\* str.replace(old, ''): the text with every occurrence of old removed
RECURSIVE Replace(_, _)
Replace(s, old) ==
    IF s = <<>> THEN <<>>
    ELSE IF Head(s) = old THEN Replace(Tail(s), old)
    ELSE <<Head(s)>> \o Replace(Tail(s), old)

----------------------------------------------------------------------------
(* Outcomes of an API call *)

Ok(v)      == [kind |-> "Ok", value |-> v]
None       == [kind |-> "None", value |-> <<>>]
NotOpen    == [kind |-> "ValueError: Serial port not open!", value |-> <<>>]
DeviceError(v) == [kind |-> "ValueError: ERROR", value |-> v]
Exception(k)   == [kind |-> k, value |-> <<>>]
Running    == [kind |-> "running", value |-> <<>>]

NoCommand == [cmd |-> <<>>, wait |-> FALSE]

\* a call of the serial library: read_all, write (with the bytes written)
\* or read_until (with the bytes returned)
LogEntry(op, data) == [op |-> op, data |-> data]

----------------------------------------------------------------------------
(* response(): classification of what read_until returned *)

\* line 110: the result of response.replace(...) is not assigned
ResponseAfterReplace(response) == response

\* a classification that does not look for the error marker
Classify_NoMarkerTest(response) ==
    LET r == ResponseAfterReplace(response) IN
    IF Len(r) = 0 THEN None ELSE Ok(r)

Classify(response) ==
    LET r == ResponseAfterReplace(response) IN
    IF Contains(r, ERROR) THEN DeviceError(r)
    ELSE IF Len(r) = 0 THEN None
    ELSE Ok(r)

\* read_until(terminator) on a port opened without a timeout: blocks until
\* the terminator has arrived, returns everything up to and including it
CanReadUntil == Contains(rx, response_terminator)
ReadUntil == SubSeq(rx, 1, IndexOf(rx, response_terminator))
AfterReadUntil == SubSeq(rx, IndexOf(rx, response_terminator) + 1, Len(rx))

----------------------------------------------------------------------------
(* The device: answers one written line at a time, asynchronously *)

Replies == { <<response_terminator>>,
             <<"text", response_terminator>>,
             <<ERROR, ": invalid index", response_terminator>> }

DeviceReply ==
    /\ tx > 0
    /\ \E r \in Replies : rx' = rx \o r
    /\ tx' = tx - 1
    /\ UNCHANGED <<is_open, attrVars, task, pc, cur, loopVars, call, log, sent, result>>
    /\ UNCHANGED <<capVars, cfgVars, timeVars, contVars>>

----------------------------------------------------------------------------
(* Control: how a call ends, and where control goes when command() returns *)

FinishCore(res) ==
    /\ task' = "none"
    /\ pc' = "idle"
    /\ cur' = NoCommand
    /\ todo' = <<>>
    /\ fs_index' = 1
    /\ pattern_index' = 1
    /\ contiguous_zero_count' = 0
    /\ result' = res

\* the call ends with res and changes nothing else
Finish(res) == FinishCore(res) /\ UNCHANGED contVars

\* command() is about to be called with cmd, awaiting its response
StartCommand(cmd, wait) ==
    /\ cur' = [cmd |-> cmd, wait |-> wait]
    /\ pc' = "flush"

\* command() (or response()) returns v to the call that made it
CommandReturns(v) ==
    CASE task = "preloadSequence" ->
            /\ IF todo # <<>>
               THEN StartCommand(Head(todo), TRUE) /\ todo' = Tail(todo)
               ELSE pc' = "loop" /\ cur' = NoCommand /\ todo' = todo
            /\ UNCHANGED <<task, fs_index, pattern_index, contiguous_zero_count, result, contVars>>
      [] task = "setSequenceBitDepth" -> Finish(None)
      [] task = "runSequence" -> Finish(None)
      [] task = "sequenceReset" ->
            \* lines 275-278
            IF cur.cmd = <<"x">>
            THEN /\ StartCommand(<<"reseq">>, call.wait)
                 /\ UNCHANGED <<task, loopVars, result, contVars>>
            ELSE /\ FinishCore(None)
                 /\ state_index' = 0
                 /\ sequence_loaded' = FALSE
      [] task = "getLedArrayParameters" ->
            \* line 160: raw = self.command('pprops')
            /\ pc' = "parse"
            /\ cur' = NoCommand
            /\ result' = [kind |-> "running", value |-> IF v.kind = "None" THEN <<"None">> ELSE v.value]
            /\ UNCHANGED <<task, loopVars, contVars>>
      [] OTHER -> Finish(v)

----------------------------------------------------------------------------
(* flush(), lines 121-128; command(), lines 74-99; response(), lines 102-119 *)

\* a flush that does not test is_open
FlushRaises_Never == FALSE

FlushRaises == ~is_open

WriteRaises == ~is_open

ResponseRaises == ~is_open

\* line 86: the bytes handed to interface.write
WriteData(cmd) == cmd \o <<command_terminator>>

\* a command() that reads a response whatever wait_for_response is
AfterWrite_AlwaysRead(wait) == "read"

\* line 91: what command() does after the write
AfterWrite(wait) == IF wait THEN "read" ELSE "return"

\* self.flush(): the first statement of command(), or the API call flush()
CommandFlush ==
    /\ pc = "flush"
    /\ IF FlushRaises
       THEN Finish(NotOpen) /\ log' = <<>> /\ UNCHANGED rx
       ELSE /\ rx' = <<>>
            /\ log' = <<LogEntry("read_all", <<>>)>>
            /\ IF task = "flush"
               THEN Finish(None)
               ELSE pc' = "write" /\ UNCHANGED <<task, cur, loopVars, result, contVars>>
    /\ UNCHANGED <<is_open, tx, attrVars, call, sent, capVars, cfgVars, timeVars>>

\* lines 85-88, then line 91
CommandWrite ==
    /\ pc = "write"
    /\ IF WriteRaises
       THEN Finish(NotOpen) /\ UNCHANGED <<tx, log, sent>>
       ELSE /\ tx' = tx + 1
            /\ sent' = Append(sent, WriteData(cur.cmd))
            /\ log' = Append(log, LogEntry("write", WriteData(cur.cmd)))
            /\ IF AfterWrite(cur.wait) = "read"
               THEN pc' = "read" /\ UNCHANGED <<task, cur, loopVars, result, contVars>>
               ELSE CommandReturns(None)
    /\ UNCHANGED <<is_open, rx, attrVars, call, capVars, cfgVars, timeVars>>

\* self.response(): called by command(), or the API call response()
CommandRead ==
    /\ pc = "read"
    /\ IF ResponseRaises
       THEN Finish(NotOpen) /\ UNCHANGED <<rx, log>>
       ELSE /\ CanReadUntil
            /\ rx' = AfterReadUntil
            /\ log' = Append(log, LogEntry("read_until", ReadUntil))
            /\ LET c == Classify(ReadUntil) IN
               IF c.kind = "ValueError: ERROR" THEN Finish(c) ELSE CommandReturns(c)
    /\ UNCHANGED <<is_open, tx, attrVars, call, sent, capVars, cfgVars, timeVars>>

----------------------------------------------------------------------------
(* API calls *)

Idle == task = "none"

Commands == { <<"bf">> }

CallRecord(name, cmd, wait) == [name |-> name, cmd |-> cmd, wait |-> wait]

NewCall(name, cmd, wait) ==
    /\ call' = CallRecord(name, cmd, wait)
    /\ log' = <<>>
    /\ sent' = <<>>
    /\ task' = name
    /\ result' = Running

CallCommand ==
    /\ Idle
    /\ \E cmd \in Commands, wait \in BOOLEAN :
          /\ wait \/ tx < MaxTx
          /\ NewCall("command", cmd, wait)
          /\ StartCommand(cmd, wait)
    /\ UNCHANGED <<linkVars, attrVars, loopVars, capVars, cfgVars, timeVars, contVars>>

CallFlush ==
    /\ Idle
    /\ NewCall("flush", <<>>, FALSE)
    /\ pc' = "flush"
    /\ UNCHANGED <<linkVars, attrVars, cur, loopVars, capVars, cfgVars, timeVars, contVars>>

CallResponse ==
    /\ Idle
    /\ NewCall("response", <<>>, TRUE)
    /\ pc' = "read"
    /\ UNCHANGED <<linkVars, attrVars, cur, loopVars, capVars, cfgVars, timeVars, contVars>>

\* unload(), lines 140-143
Unload ==
    /\ Idle
    /\ is_open' = FALSE
    /\ call' = CallRecord("unload", <<>>, FALSE)
    /\ log' = <<>>
    /\ sent' = <<>>
    /\ result' = None
    /\ UNCHANGED <<rx, tx, attrVars, task, pc, cur, loopVars, capVars, cfgVars, timeVars, contVars>>

\* reload(), lines 130-138: unload(), then a new serial.Serial on the port;
\* input that was buffered on the old connection may or may not survive
Reload ==
    /\ Idle
    /\ is_open' = TRUE
    /\ rx' \in {rx, <<>>}
    /\ call' = CallRecord("reload", <<>>, FALSE)
    /\ log' = <<>>
    /\ sent' = <<>>
    /\ result' = None
    /\ UNCHANGED <<tx, attrVars, task, pc, cur, loopVars, capVars, cfgVars, timeVars, contVars>>

----------------------------------------------------------------------------
(* Frames: the data preloadSequence compiles *)

\* an LED entry: {'index': i, 'value': {channel: intensity}}
LedZero    == [index |-> 0, value |-> [r |-> 0, g |-> 0]]
LedRed     == [index |-> 5, value |-> [r |-> 2, g |-> 0]]
LedGreen   == [index |-> 3, value |-> [r |-> 0, g |-> 7]]
LedNoGreen == [index |-> 1, value |-> [r |-> 4]]

\* a time-point pattern: a list of LED entries
Patterns == { <<LedZero>>,
              <<LedRed, LedZero, LedGreen>>,
              <<LedNoGreen>> }

RECURSIVE SeqsUpTo(_, _)
SeqsUpTo(S, n) ==
    IF n = 0 THEN { <<>> }
    ELSE LET shorter == SeqsUpTo(S, n - 1) IN
         shorter \cup { Append(q, x) : q \in { r \in shorter : Len(r) = n - 1 }, x \in S }

\* a frame sequence: {'states': [pattern, ...]}
FrameSequence(states) == [type |-> "dict", states |-> states]

\* the value of [[item for sublist in seqs for item in sublist]][0]: a list;
\* iterating a dict yields its keys
Flattened(seqs) == [type |-> "list", items |-> [i \in 1..Len(seqs) |-> "states"]]

StateSequences ==
    { <<FrameSequence(s)>> : s \in SeqsUpTo(Patterns, MaxFrames) }

IntIndex(i) == [type |-> "int", v |-> <<i>>]
ListIndex(l) == [type |-> "list", v |-> l]
FrameIndexes == { IntIndex(i) : i \in -1..1 } \cup { ListIndex(<<0>>) }

----------------------------------------------------------------------------
(* preloadSequence, lines 335-408 *)

\* lines 338-358: the value of self.state_sequence_preload and the exception
\* raised, if any.  time_given: time_sequence_s is a list parallel to
\* state_sequence (otherwise it is None).
Select(seqs, frame_index, time_given) ==
    IF frame_index.type = "list"
    THEN IF \E k \in 1..Len(frame_index.v) : frame_index.v[k] >= Len(seqs)
         THEN [err |-> "IndexError", preload |-> seqs]
         ELSE IF ~time_given
         THEN [err |-> "TypeError", preload |-> seqs]
         ELSE [err |-> "", preload |-> <<Flattened(seqs)>>]
    ELSE LET i == frame_index.v[1] IN
         IF i >= 0
         THEN IF i >= Len(seqs)
              THEN [err |-> "IndexError", preload |-> seqs]
              ELSE [err |-> IF time_given THEN "" ELSE "TypeError",
                    preload |-> <<seqs[i + 1]>>]
         ELSE [err |-> IF time_given THEN "" ELSE "TypeError",
               preload |-> <<Flattened(seqs)>>]

\* time lists: the value of an attribute that holds one is a record, kind
\* "unset" (no such attribute), "None" or "list" (v: a list of lists of s)
TimeUnset == [kind |-> "unset", v |-> <<>>]
TimeNone == [kind |-> "None", v |-> <<>>]
TimeList(v) == [kind |-> "list", v |-> v]

RECURSIVE Concat2(_)
Concat2(lists) == IF lists = <<>> THEN <<>> ELSE Head(lists) \o Concat2(Tail(lists))

\* lines 340-358: the value of self.time_sequence_s_preload when the
\* selection ends or raises (line 349 assigns a local, not the attribute)
SelectTime(seqs, times, frame_index, time_given) ==
    IF ~time_given THEN TimeNone
    ELSE IF frame_index.type = "list" THEN TimeList(times)
    ELSE LET i == frame_index.v[1] IN
         IF i >= 0
         THEN IF i >= Len(seqs) \/ i >= Len(times) THEN TimeList(times)
              ELSE TimeList(<<times[i + 1]>>)
         ELSE TimeList(<<Concat2(times)>>)

\* a length that counts the frame sequences, not their time points
LedSequenceLength_CountsSequences(seqs) == Len(seqs)

\* lines 361-363
RECURSIVE LedSequenceLength(_)
LedSequenceLength(seqs) ==
    IF seqs = <<>> THEN 0
    ELSE Len(Head(seqs).states) + LedSequenceLength(Tail(seqs))

\* line 363 raises TypeError when frame_sequence is a list
LengthRaises(seqs) == \E k \in 1..Len(seqs) : seqs[k].type = "list"

\* a length declaration sent under the zero-run command name
SslCmd_WrongName(n) == <<"ssz", Str(n)>>

\* line 366
SslCmd(n) == <<"ssl", Str(n)>>
\* lines 394 and 399
SszCmd(n) == <<"ssz", Str(n)>>

\* line 402
SsvCmd(count, cmd) == <<"ssv", Str(count)>> \o cmd

RECURSIVE SumOver(_, _)
SumOver(f, S) ==
    IF S = {} THEN 0
    ELSE LET k == CHOOSE k \in S : TRUE IN f[k] + SumOver(f, S \ {k})

\* line 382
LedIsOn(led_pattern) == SumOver(led_pattern.value, DOMAIN led_pattern.value) > 0

\* an encoding that ignores the bit depth
EncodeValue_AlwaysRaw(v, depth) == Str(v)

\* lines 386-389
EncodeValue(v, depth) ==
    IF depth > 1 THEN Str(v) ELSE Str(IF v > 0 THEN 1 ELSE 0)

\* lines 385-389: the values of one LED entry, one per capability channel
RECURSIVE ChannelValues(_, _, _)
ChannelValues(led_pattern, channels, depth) ==
    IF channels = <<>> THEN [err |-> "", cmd |-> <<>>]
    ELSE IF depth = 0 THEN [err |-> "AttributeError", cmd |-> <<>>]
    ELSE IF Head(channels) \notin DOMAIN led_pattern.value
    THEN [err |-> "KeyError", cmd |-> <<>>]
    ELSE LET rest == ChannelValues(led_pattern, Tail(channels), depth) IN
         [err |-> rest.err,
          cmd |-> <<EncodeValue(led_pattern.value[Head(channels)], depth)>> \o rest.cmd]

\* lines 377-389: cmd and led_count of one time-point pattern
RECURSIVE PatternCmd(_, _, _)
PatternCmd(time_point_pattern, channels, depth) ==
    IF time_point_pattern = <<>> THEN [err |-> "", cmd |-> <<>>, led_count |-> 0]
    ELSE LET led_pattern == Head(time_point_pattern)
             rest == PatternCmd(Tail(time_point_pattern), channels, depth)
         IN  IF ~LedIsOn(led_pattern) THEN rest
             ELSE LET cv == ChannelValues(led_pattern, channels, depth) IN
                  IF cv.err # "" THEN [err |-> cv.err, cmd |-> <<>>, led_count |-> 0]
                  ELSE [err |-> rest.err,
                        cmd |-> <<Str(led_pattern.index)>> \o cv.cmd \o rest.cmd,
                        led_count |-> 1 + rest.led_count]

\* a zero run flushed at every dark frame
IsLastPattern_Always(index, states) == TRUE

\* line 393
IsLastPattern(index, states) == index = Len(states)

\* a lit frame sent before the zero run that precedes it
PatternCommands_ValueFirst(pc_, zero_count, is_last) ==
    IF pc_.led_count = 0
    THEN IF is_last
         THEN [cmds |-> <<SszCmd(zero_count + 1)>>, zero_count |-> 0]
         ELSE [cmds |-> <<>>, zero_count |-> zero_count + 1]
    ELSE [cmds |-> <<SsvCmd(pc_.led_count, pc_.cmd)>>
                   \o (IF zero_count > 0 THEN <<SszCmd(zero_count)>> ELSE <<>>),
          zero_count |-> 0]

\* lines 391-405: the commands one time-point pattern sends, in order, and
\* the value of contiguous_zero_count after it
PatternCommands(pc_, zero_count, is_last) ==
    IF pc_.led_count = 0
    THEN IF is_last
         THEN [cmds |-> <<SszCmd(zero_count + 1)>>, zero_count |-> 0]
         ELSE [cmds |-> <<>>, zero_count |-> zero_count + 1]
    ELSE [cmds |-> (IF zero_count > 0 THEN <<SszCmd(zero_count)>> ELSE <<>>)
                   \o <<SsvCmd(pc_.led_count, pc_.cmd)>>,
          zero_count |-> 0]

\* the first frame sequence at or after position f that has a pattern
RECURSIVE FirstWithStates(_, _)
FirstWithStates(seqs, f) ==
    IF f > Len(seqs) THEN f
    ELSE IF Len(seqs[f].states) > 0 THEN f
    ELSE FirstWithStates(seqs, f + 1)

\* the call, lines 335-366, up to the first statement of command('ssl...')
CallPreloadSequence ==
    /\ Idle
    /\ \E frame_index \in FrameIndexes, time_given \in BOOLEAN :
          LET sel == Select(state_sequence, frame_index, time_given) IN
          /\ state_sequence_preload' = sel.preload
          /\ time_sequence_s_preload' =
                SelectTime(state_sequence, time_sequence_s, frame_index, time_given)
          /\ call' = CallRecord("preloadSequence", <<>>, TRUE)
          /\ log' = <<>>
          /\ sent' = <<>>
          /\ IF sel.err # "" THEN Finish(Exception(sel.err))
             ELSE IF LengthRaises(sel.preload) THEN Finish(Exception("TypeError"))
             ELSE /\ task' = "preloadSequence"
                  /\ result' = Running
                  /\ UNCHANGED contVars
                  /\ StartCommand(SslCmd(LedSequenceLength(sel.preload)), TRUE)
                  /\ todo' = <<>>
                  /\ fs_index' = FirstWithStates(sel.preload, 1)
                  /\ pattern_index' = 1
                  /\ contiguous_zero_count' = 0
    /\ UNCHANGED <<linkVars, color_channels, illumination_sequence_bit_depth, state_sequence>>
    /\ UNCHANGED <<capVars, cfgVars, time_sequence_s, sequence_dt_ms>>

\* one iteration of the loops of lines 371-408, up to the first statement
\* of the first command() it calls; or the end of the loops
PreloadPattern ==
    /\ task = "preloadSequence"
    /\ pc = "loop"
    /\ IF fs_index > Len(state_sequence_preload)
       THEN FinishCore(None) /\ sequence_loaded' = TRUE /\ UNCHANGED state_index
       ELSE LET states == state_sequence_preload[fs_index].states
                pcmd == PatternCmd(states[pattern_index], color_channels,
                                   illumination_sequence_bit_depth)
                out == PatternCommands(pcmd, contiguous_zero_count,
                                       IsLastPattern(pattern_index, states))
            IN  IF pcmd.err # "" THEN Finish(Exception(pcmd.err))
                ELSE /\ UNCHANGED contVars
                     /\ contiguous_zero_count' = out.zero_count
                     /\ IF pattern_index = Len(states)
                        THEN /\ fs_index' = FirstWithStates(state_sequence_preload, fs_index + 1)
                             /\ pattern_index' = 1
                        ELSE /\ fs_index' = fs_index
                             /\ pattern_index' = pattern_index + 1
                     /\ IF out.cmds = <<>>
                        THEN UNCHANGED <<pc, cur, todo>>
                        ELSE StartCommand(Head(out.cmds), TRUE) /\ todo' = Tail(out.cmds)
                     /\ UNCHANGED <<task, result>>
    /\ UNCHANGED <<linkVars, attrVars, call, log, sent, capVars, cfgVars, timeVars>>

\* setSequenceBitDepth, lines 265-271
allowed_bit_depths == {1, 8}

CallSetSequenceBitDepth ==
    /\ Idle
    /\ \E depth \in {1, 8, 16} :
          \* the call record keeps the requested depth and the stored depth
          \* at the time of the call
          /\ call' = CallRecord("setSequenceBitDepth",
                                <<Str(depth), Str(illumination_sequence_bit_depth)>>, TRUE)
          /\ log' = <<>>
          /\ sent' = <<>>
          /\ IF depth \in allowed_bit_depths
             THEN /\ illumination_sequence_bit_depth' = depth
                  /\ task' = "setSequenceBitDepth"
                  /\ result' = Running
                  /\ StartCommand(<<"ssbd", Str(depth)>>, TRUE)
                  /\ UNCHANGED <<loopVars, contVars>>
             ELSE /\ Finish(Exception("ValueError: Invalid bit depth"))
                  /\ UNCHANGED illumination_sequence_bit_depth
    /\ UNCHANGED <<linkVars, color_channels, state_sequence, state_sequence_preload>>
    /\ UNCHANGED <<capVars, cfgVars, timeVars>>

----------------------------------------------------------------------------
(* sequenceReset and runSequence, lines 273-333 *)

\* a reset that does not await the responses of its commands
SequenceResetWait_No == FALSE

\* lines 275 and 277: command() with its default wait_for_response
SequenceResetWait == TRUE

\* sequenceReset(), line 275; lines 276-278 are in CommandReturns
CallSequenceReset ==
    /\ Idle
    /\ NewCall("sequenceReset", <<>>, SequenceResetWait)
    /\ StartCommand(<<"x">>, SequenceResetWait)
    /\ UNCHANGED <<linkVars, attrVars, loopVars, capVars, cfgVars, timeVars, contVars>>

\* np.diff(np.append(0, t)) summed: the differences of 0, t[1], ..., t[n]
RECURSIVE SumDiff(_, _)
SumDiff(prev, t) ==
    IF t = <<>> THEN 0 ELSE (Head(t) - prev) + SumDiff(Head(t), Tail(t))

\* line 294: the mean step of the preloaded times, in ms, as a fraction
\* <<numerator, denominator>>; np.mean of no value is nan, <<0, 0>>
SequenceDtMs(t) ==
    LET flat == Concat2(t) IN <<SumDiff(0, flat) * 1000, Len(flat)>>

IsNan(q) == q[2] = 0

\* np.round: to the nearest integer, a half to the even one
Round(q) ==
    LET f == q[1] \div q[2]
        r2 == 2 * (q[1] % q[2])
    IN  IF r2 < q[2] THEN f
        ELSE IF r2 > q[2] THEN f + 1
        ELSE IF f % 2 = 0 THEN f ELSE f + 1

\* int(): the integer part
Trunc(q) == q[1] \div q[2]

Max(a, b) == IF a >= b THEN a ELSE b

\* a test that looks at the first trigger input only
UseMinimumDt_FirstOnly == trigger_input_settings[1] > 0

\* line 308
UseMinimumDt == trigger_input_settings[1] + trigger_input_settings[2] > 0

\* lines 308-314: the interval and the command of _runSequence, or the
\* exception raised while they are built
RunSequenceCmd(n_acquisitions) ==
    IF Len(trigger_input_settings) < 2 THEN [err |-> "IndexError", cmd |-> <<>>]
    ELSE LET feedback == UseMinimumDt
             sequence_dt_ms_to_use ==
                 IF feedback THEN <<min_sequence_dt_ms, 1>> ELSE sequence_dt_ms'
         IN  IF feedback /\ min_sequence_dt_ms = -1
             THEN [err |-> "AttributeError", cmd |-> <<>>]
             ELSE IF IsNan(sequence_dt_ms_to_use)
             THEN [err |-> "ValueError: NaN", cmd |-> <<>>]
             ELSE IF Len(trigger_output_settings) < 2
             THEN [err |-> "IndexError", cmd |-> <<>>]
             ELSE IF trigger_frame_time_s = <<>>
             THEN [err |-> "AttributeError", cmd |-> <<>>]
             ELSE [err |-> "",
                   cmd |-> <<"rseq", Str(Round(sequence_dt_ms_to_use)), Str(n_acquisitions),
                             Str(trigger_output_settings[1]), Str(trigger_output_settings[2]),
                             Str(trigger_input_settings[1]), Str(trigger_input_settings[2]),
                             Str(trigger_frame_time_s[1]), Str(trigger_frame_time_s[2])>>]

\* lines 327-330: the command of _runSequenceFast, the interval in us
RunSequenceFastCmd(n_acquisitions) ==
    IF IsNan(sequence_dt_ms') THEN [err |-> "ValueError: NaN", cmd |-> <<>>]
    ELSE IF trigger_frame_time_s = <<>> THEN [err |-> "AttributeError", cmd |-> <<>>]
    ELSE IF Len(trigger_output_settings) < 2 \/ Len(trigger_input_settings) < 2
    THEN [err |-> "IndexError", cmd |-> <<>>]
    ELSE [err |-> "",
          cmd |-> <<"rseqf", Str(Trunc(<<sequence_dt_ms'[1] * 1000, sequence_dt_ms'[2]>>)),
                    Str(Max(trigger_frame_time_s[1], trigger_frame_time_s[2])),
                    Str(n_acquisitions),
                    Str(trigger_output_settings[1]), Str(trigger_output_settings[2]),
                    Str(trigger_input_settings[1]), Str(trigger_input_settings[2])>>]

\* a run command whose response is awaited in the normal mode
RunSequenceWait_NormalWaits(fast) == ~fast

\* lines 316 and 333: wait_for_response of the run command
RunSequenceWait(fast) == FALSE

Acquisitions == {1, 2}

\* runSequence(), lines 290-333, up to the first statement of command()
CallRunSequence ==
    /\ Idle
    /\ tx < MaxTx
    /\ \E n_acquisitions \in Acquisitions :
          /\ call' = CallRecord("runSequence", <<Str(n_acquisitions)>>,
                                RunSequenceWait(use_fast_sequence))
          /\ log' = <<>>
          /\ sent' = <<>>
          /\ IF time_sequence_s_preload.kind # "list"
             THEN /\ Finish(Exception(IF time_sequence_s_preload.kind = "unset"
                                      THEN "AttributeError" ELSE "TypeError"))
                  /\ UNCHANGED sequence_dt_ms
             ELSE /\ sequence_dt_ms' = SequenceDtMs(time_sequence_s_preload.v)
                  /\ LET c == IF use_fast_sequence THEN RunSequenceFastCmd(n_acquisitions)
                                                   ELSE RunSequenceCmd(n_acquisitions)
                     IN  IF c.err # "" THEN Finish(Exception(c.err))
                         ELSE /\ task' = "runSequence"
                              /\ result' = Running
                              /\ StartCommand(c.cmd, RunSequenceWait(use_fast_sequence))
                              /\ UNCHANGED <<loopVars, contVars>>
    /\ UNCHANGED <<linkVars, attrVars, capVars, cfgVars, time_sequence_s, time_sequence_s_preload>>

\* the caller assigns the trigger settings (__init__ leaves them to the
\* caller, lines 26-27; the class has no setter)
TriggerSettings ==
    { [input |-> <<0, 0>>, output |-> <<1, 2>>],
      [input |-> <<1, 0>>, output |-> <<0, 0>>],
      [input |-> <<0, 2>>, output |-> <<1, 2>>] }

SetTriggerSettings ==
    /\ Idle
    /\ \E t \in TriggerSettings :
          /\ trigger_input_settings' = t.input
          /\ trigger_output_settings' = t.output
    /\ call' = CallRecord("trigger settings", <<>>, FALSE)
    /\ log' = <<>>
    /\ sent' = <<>>
    /\ result' = None
    /\ UNCHANGED <<linkVars, attrVars, task, pc, cur, loopVars>>
    /\ UNCHANGED <<bit_depth, device_name, led_count, color_channel_center_wavelengths>>
    /\ UNCHANGED <<cfgVars, timeVars, contVars>>

\* the caller assigns the attributes _runSequence and _runSequenceFast read
\* and no method sets (use_fast_sequence, line 38)
SetRunOptions ==
    /\ Idle
    /\ use_fast_sequence' \in BOOLEAN
    /\ min_sequence_dt_ms' \in {min_sequence_dt_ms, 20}
    /\ trigger_frame_time_s' \in {trigger_frame_time_s, <<3, 5>>}
    /\ call' = CallRecord("run options", <<>>, FALSE)
    /\ log' = <<>>
    /\ sent' = <<>>
    /\ result' = None
    /\ UNCHANGED <<linkVars, attrVars, task, pc, cur, loopVars>>
    /\ UNCHANGED <<capVars, timeVars, contVars>>

----------------------------------------------------------------------------
(* getLedArrayParameters, lines 158-185 *)

\* the property texts a device may answer 'pprops' with, in the quoting
\* the device uses, and what line 163 makes of each by replacing ' with "
PropsTexts == { "{'props'}", "{'props without led_count'}", "{'props with a count in words'}" }

QuotesReplaced(tok) ==
    CASE tok = "{'props'}" -> "{\"props\"}"
      [] tok = "{'props without led_count'}" -> "{\"props without led_count\"}"
      [] tok = "{'props with a count in words'}" -> "{\"props with a count in words\"}"
      [] OTHER -> tok

\* line 163, replace('-==-', ''): of the terminator its '\n' is left
TerminatorReplaced(tok) == IF tok = response_terminator THEN "\n" ELSE tok

\* line 163, [0:-1]: the text without its last character
DropLast(text) ==
    IF text = <<>> THEN <<>>
    ELSE IF text[Len(text)] = "\n" THEN SubSeq(text, 1, Len(text) - 1)
    ELSE IF text[Len(text)] = "None" THEN SubSeq(text, 1, Len(text) - 1) \o <<"Non">>
    ELSE SubSeq(text, 1, Len(text) - 1) \o <<"cut short">>

\* line 163
Filtered(raw) ==
    DropLast([i \in 1..Len(raw) |-> QuotesReplaced(TerminatorReplaced(raw[i]))])

\* the dictionaries of the property texts
FullProps ==
    [trigger_output_count |-> "2", trigger_input_count |-> "2", bit_depth |-> "1",
     device_name |-> "led-array-2", led_count |-> "4", color_channels |-> <<"r">>,
     color_channel_center_wavelengths |-> "wavelengths-2"]

PropsWithoutLedCount ==
    [trigger_output_count |-> "2", trigger_input_count |-> "2", bit_depth |-> "1",
     device_name |-> "led-array-2", color_channels |-> <<"r">>,
     color_channel_center_wavelengths |-> "wavelengths-2"]

PropsCountInWords ==
    [trigger_output_count |-> "2", trigger_input_count |-> "two", bit_depth |-> "1",
     device_name |-> "led-array-2", led_count |-> "4", color_channels |-> <<"r">>,
     color_channel_center_wavelengths |-> "wavelengths-2"]

NoProps == [ok |-> FALSE, dict |-> [none |-> ""]]

\* line 167, json.loads: the dictionary of a text that is one JSON
\* object; any other text raises ValueError
JsonLoads(text) ==
    IF Len(text) # 1 THEN NoProps
    ELSE CASE text[1] = "{\"props\"}" -> [ok |-> TRUE, dict |-> FullProps]
           [] text[1] = "{\"props without led_count\"}" ->
                 [ok |-> TRUE, dict |-> PropsWithoutLedCount]
           [] text[1] = "{\"props with a count in words\"}" ->
                 [ok |-> TRUE, dict |-> PropsCountInWords]
           [] OTHER -> NoProps

\* lines 158-173: params_dict, None included
ParamsDict(raw) == JsonLoads(Filtered(raw))

\* int() of a text
IsIntText(t) == \E n \in 0..MaxNum : Str(n) = t

\* (0,) * n
Zeros(n) == [i \in 1..n |-> 0]

\* lines 179-185 in order: the key each line reads, and whether it
\* converts the value with int()
PropsLines ==
    << [key |-> "trigger_output_count", int |-> TRUE],
       [key |-> "trigger_input_count", int |-> TRUE],
       [key |-> "bit_depth", int |-> TRUE],
       [key |-> "device_name", int |-> FALSE],
       [key |-> "led_count", int |-> TRUE],
       [key |-> "color_channels", int |-> FALSE],
       [key |-> "color_channel_center_wavelengths", int |-> FALSE] >>

LineRaises(d, k) ==
    \/ PropsLines[k].key \notin DOMAIN d
    \/ PropsLines[k].int /\ ~IsIntText(d[PropsLines[k].key])

\* the first of lines 179-185 that raises (8: none does)
RECURSIVE FirstRaising(_, _)
FirstRaising(d, k) ==
    IF k > Len(PropsLines) THEN k
    ELSE IF LineRaises(d, k) THEN k
    ELSE FirstRaising(d, k + 1)

\* getLedArrayParameters(), lines 175-177 and 158-160
CallGetLedArrayParameters ==
    /\ Idle
    /\ NewCall("getLedArrayParameters", <<>>, TRUE)
    /\ StartCommand(<<"pprops">>, TRUE)
    /\ UNCHANGED <<linkVars, attrVars, loopVars, capVars, cfgVars, timeVars, contVars>>

\* lines 163-185, after command('pprops') has returned raw
GetLedArrayParametersParse ==
    /\ task = "getLedArrayParameters"
    /\ pc = "parse"
    /\ LET params_dict == ParamsDict(result.value)
           d == params_dict.dict
           stop == IF params_dict.ok THEN FirstRaising(d, 1) ELSE 1
       IN  /\ trigger_output_settings' =
                 IF stop > 1 THEN Zeros(ParseInt(d.trigger_output_count))
                 ELSE trigger_output_settings
           /\ trigger_input_settings' =
                 IF stop > 2 THEN Zeros(ParseInt(d.trigger_input_count))
                 ELSE trigger_input_settings
           /\ bit_depth' = IF stop > 3 THEN ParseInt(d.bit_depth) ELSE bit_depth
           /\ device_name' = IF stop > 4 THEN d.device_name ELSE device_name
           /\ led_count' = IF stop > 5 THEN ParseInt(d.led_count) ELSE led_count
           /\ color_channels' = IF stop > 6 THEN d.color_channels ELSE color_channels
           /\ color_channel_center_wavelengths' =
                 IF stop > 7 THEN d.color_channel_center_wavelengths
                 ELSE color_channel_center_wavelengths
           /\ IF ~params_dict.ok THEN Finish(None)
              ELSE IF stop > Len(PropsLines) THEN Finish(None)
              ELSE IF PropsLines[stop].key \notin DOMAIN d THEN Finish(Exception("KeyError"))
              ELSE Finish(Exception("ValueError: invalid literal for int()"))
    /\ UNCHANGED <<linkVars, illumination_sequence_bit_depth, state_sequence,
                   state_sequence_preload, call, log, sent, cfgVars, timeVars>>

\* the device answers a line with its property text
DeviceReplyProps ==
    /\ tx > 0
    /\ tx' = tx - 1
    /\ \E text \in PropsTexts : rx' = rx \o <<text, response_terminator>>
    /\ UNCHANGED <<is_open, attrVars, task, pc, cur, loopVars, call, log, sent, result>>
    /\ UNCHANGED <<capVars, cfgVars, timeVars, contVars>>

----------------------------------------------------------------------------
(* The program *)

ChannelLists == { <<"g", "r">> }

\* the caller's time list (s) for a frame sequence with n time points
FrameTime(i) == 3 * i - (i % 2)
TimesFor(seqs) == [k \in 1..Len(seqs) |-> [i \in 1..Len(seqs[k].states) |-> FrameTime(i)]]

\* lines 14-56 and 175-185: what __init__ leaves in every field but the
\* caller's frames, the capability query having been answered
Constructed ==
    /\ trigger_output_settings = <<0, 0>>
    /\ trigger_input_settings = <<0, 0>>
    /\ bit_depth = 8
    /\ device_name = "led-array"
    /\ led_count = 6
    /\ color_channel_center_wavelengths = "wavelengths"
    /\ time_sequence_s_preload = TimeUnset
    /\ sequence_dt_ms = <<>>
    /\ use_fast_sequence = FALSE
    /\ min_sequence_dt_ms = -1
    /\ trigger_frame_time_s = <<>>
    /\ state_index = -1
    /\ sequence_loaded = FALSE
    /\ is_open = TRUE
    /\ rx = <<>>
    /\ tx = 0
    /\ color_channels \in ChannelLists
    /\ illumination_sequence_bit_depth = 0
    /\ state_sequence_preload = <<>>
    /\ task = "none"
    /\ pc = "idle"
    /\ cur = NoCommand
    /\ todo = <<>>
    /\ fs_index = 1
    /\ pattern_index = 1
    /\ contiguous_zero_count = 0
    /\ call = CallRecord("__init__", <<>>, FALSE)
    /\ log = <<>>
    /\ sent = <<>>
    /\ result = None

\* the state after __init__ (lines 14-56): the port is open, the capability
\* query has been answered, no sequence has been preloaded
Init ==
    /\ Constructed
    /\ state_sequence \in StateSequences
    /\ time_sequence_s = TimesFor(state_sequence)

Next ==
    \/ DeviceReply
    \/ CommandFlush
    \/ CommandWrite
    \/ CommandRead
    \/ CallCommand
    \/ CallFlush
    \/ CallResponse
    \/ Unload
    \/ Reload
    \/ CallPreloadSequence
    \/ PreloadPattern
    \/ CallSetSequenceBitDepth

Spec == Init /\ [][Next]_vars

----------------------------------------------------------------------------
(* A device that may stay silent *)

\* frames that light no LED: their compilation needs no bit depth
DarkSequences == { <<FrameSequence(s)>> : s \in SeqsUpTo({<<LedZero>>}, MaxFrames) }

InitDark ==
    /\ Constructed
    /\ state_sequence \in DarkSequences
    /\ time_sequence_s = TimesFor(state_sequence)

\* the device takes a command line and answers nothing, or answers text
\* that no terminator follows
DeviceSilent ==
    /\ tx > 0
    /\ tx' = tx - 1
    /\ rx' \in {rx, rx \o <<"text">>}
    /\ UNCHANGED <<is_open, attrVars, task, pc, cur, loopVars, call, log, sent, result>>
    /\ UNCHANGED <<capVars, cfgVars, timeVars, contVars>>

\* the statements of command(), flush() and response(): the host thread
\* runs them one after the other
HostStep == CommandFlush \/ CommandWrite \/ CommandRead

NextSilent ==
    \/ DeviceReply
    \/ DeviceSilent
    \/ CommandFlush
    \/ CommandWrite
    \/ CommandRead
    \/ CallCommand
    \/ CallResponse

\* the host thread keeps running while it has a statement that can run
\* (a read_until() with no terminator in the input cannot: the port is
\* opened without a timeout, line 137), and the device handles the lines
\* it has received
SpecSilent ==
    InitDark /\ [][NextSilent]_vars /\ WF_vars(HostStep) /\ WF_vars(DeviceReply \/ DeviceSilent)

----------------------------------------------------------------------------
(* Reading the commands back, for the properties below *)

IsCmd(line, op) == Len(line) >= 1 /\ line[1] = op

CountCmd(lines, op) == Cardinality({ i \in 1..Len(lines) : IsCmd(lines[i], op) })

\* the frames a command accounts for
FramesOf(line) ==
    IF IsCmd(line, "ssz") THEN ParseInt(line[2])
    ELSE IF IsCmd(line, "ssv") THEN 1
    ELSE 0

RECURSIVE SumFrames(_)
SumFrames(lines) == IF lines = <<>> THEN 0 ELSE FramesOf(Head(lines)) + SumFrames(Tail(lines))

\* TRUE for a dark frame, FALSE for a lit one, in playback order
RECURSIVE Decompile(_)
Decompile(lines) ==
    IF lines = <<>> THEN <<>>
    ELSE (IF IsCmd(Head(lines), "ssz") THEN [i \in 1..ParseInt(Head(lines)[2]) |-> TRUE]
          ELSE IF IsCmd(Head(lines), "ssv") THEN <<FALSE>>
          ELSE <<>>) \o Decompile(Tail(lines))

\* the time-point patterns the compile loop iterates, in order
RECURSIVE AllStates(_)
AllStates(seqs) ==
    IF seqs = <<>> THEN <<>>
    ELSE (IF Head(seqs).type = "dict" THEN Head(seqs).states ELSE <<>>) \o AllStates(Tail(seqs))

NotAllZero(led_pattern) == \E ch \in DOMAIN led_pattern.value : led_pattern.value[ch] # 0

IsDark(time_point_pattern) ==
    \A i \in 1..Len(time_point_pattern) : ~NotAllZero(time_point_pattern[i])

IsLit(time_point_pattern) == ~IsDark(time_point_pattern)

RECURSIVE Concat(_)
Concat(ss) == IF ss = <<>> THEN <<>> ELSE Head(ss) \o Concat(Tail(ss))

\* the value-set line the frame should produce
ExpectedValue(v) ==
    IF illumination_sequence_bit_depth > 1 THEN Str(v) ELSE IF v > 0 THEN "1" ELSE "0"

ExpectedEntry(led_pattern) ==
    <<Str(led_pattern.index)>>
        \o [k \in 1..Len(color_channels) |-> ExpectedValue(led_pattern.value[color_channels[k]])]

ExpectedSsv(time_point_pattern) ==
    LET listed == SelectSeq(time_point_pattern, NotAllZero) IN
    <<"ssv", Str(Len(listed))>>
        \o Concat([k \in 1..Len(listed) |-> ExpectedEntry(listed[k])])
        \o <<command_terminator>>

IsSsv(line) == IsCmd(line, "ssv")

InPreload == call.name = "preloadSequence"

\* preloadSequence has returned normally
PreloadDone == InPreload /\ task = "none" /\ result.kind = "None"

PreloadInput == AllStates(state_sequence_preload)

----------------------------------------------------------------------------
(* Properties *)

\* C1: when preloadSequence returns, the frames accounted for by the ssz
\* and ssv commands it wrote (n for ssz.n, 1 for ssv) add up to the number
\* declared by its ssl command, which is the number of time-point patterns
\* of the input.
C1_DeclaredTotalMatches ==
    PreloadDone =>
        /\ IsCmd(sent[1], "ssl")
        /\ SumFrames(sent) = ParseInt(sent[1][2])
        /\ ParseInt(sent[1][2]) = Len(PreloadInput)

C1_Witness ==
    /\ PreloadDone
    /\ \E i \in 1..Len(sent) : IsCmd(sent[i], "ssz") /\ ParseInt(sent[i][2]) >= 2
    /\ \E i \in 1..Len(sent) : IsCmd(sent[i], "ssv")

\* C2: for an all-dark input of N >= 1 patterns, preloadSequence writes,
\* after the ssl command, exactly one command: ssz.N.
C2_AllDarkOneZeroRun ==
    (/\ PreloadDone
     /\ Len(PreloadInput) >= 1
     /\ \A i \in 1..Len(PreloadInput) : IsDark(PreloadInput[i]))
    => /\ CountCmd(sent, "ssv") = 0
       /\ CountCmd(sent, "ssz") = 1
       /\ sent[Len(sent)] = <<"ssz", Str(Len(PreloadInput)), command_terminator>>

C2_Witness ==
    /\ PreloadDone
    /\ Len(PreloadInput) >= 2
    /\ \A i \in 1..Len(PreloadInput) : IsDark(PreloadInput[i])
    /\ CountCmd(sent, "ssz") = 1

\* C3: expanding the commands preloadSequence wrote (ssz.n: n dark frames,
\* ssv: one lit frame) gives the dark/lit pattern of the input frames in
\* their order; an input without a dark frame produces no ssz.
C3_DecompileRoundTrip ==
    PreloadDone =>
        /\ Decompile(sent) = [i \in 1..Len(PreloadInput) |-> IsDark(PreloadInput[i])]
        /\ (\A i \in 1..Len(PreloadInput) : IsLit(PreloadInput[i]))
              => CountCmd(sent, "ssz") = 0

C3_Witness ==
    /\ PreloadDone
    /\ illumination_sequence_bit_depth = 1
    /\ Len(PreloadInput) = 3
    /\ IsDark(PreloadInput[1]) /\ IsLit(PreloadInput[2]) /\ IsDark(PreloadInput[3])

\* C4: the k-th ssv command written is the value-set line of the k-th lit
\* frame: ssv, the number of LED entries that are not all zero, then for
\* each of those, in entry order, the LED index and one value per
\* capability channel in capability order, raw when the bit depth is > 1
\* and 0/1 when it is 1.
C4_ValueSetEncoding ==
    InPreload =>
        LET ssv == SelectSeq(sent, IsSsv)
            lit == SelectSeq(PreloadInput, IsLit)
        IN  /\ Len(ssv) <= Len(lit)
            /\ \A k \in 1..Len(ssv) : ssv[k] = ExpectedSsv(lit[k])
            /\ PreloadDone => Len(ssv) = Len(lit)

C4_Witness ==
    /\ PreloadDone
    /\ illumination_sequence_bit_depth = 1
    /\ \E i \in 1..Len(sent) : IsCmd(sent[i], "ssv") /\ sent[i][2] = "2"

\* C5: preloadSequence never writes more than one ssl command, whatever it
\* writes first is the ssl command, and when it returns it has written one.
C5_SslOnceAndFirst ==
    InPreload =>
        /\ CountCmd(sent, "ssl") <= 1
        /\ sent # <<>> => IsCmd(sent[1], "ssl")
        /\ PreloadDone => CountCmd(sent, "ssl") = 1

C5_Witness ==
    /\ PreloadDone
    /\ CountCmd(sent, "ssl") = 1
    /\ CountCmd(sent, "ssz") >= 1
    /\ CountCmd(sent, "ssv") >= 1

\* C6: when an LED entry of the input does not carry exactly the
\* capability channels, preloadSequence fails and has written nothing
\* (stated for the calls made with the bit depth set that the device did
\* not end with an ERROR answer).
C6_MismatchFailsBeforeAnyWrite ==
    (/\ InPreload
     /\ task = "none"
     /\ result.kind # "ValueError: ERROR"
     /\ illumination_sequence_bit_depth \in allowed_bit_depths
     /\ \E f \in 1..Len(state_sequence) :
          \E i \in 1..Len(state_sequence[f].states) :
             \E j \in 1..Len(state_sequence[f].states[i]) :
                DOMAIN state_sequence[f].states[i][j].value
                    # { color_channels[k] : k \in 1..Len(color_channels) })
    => /\ result.kind \notin {"None", "Ok"}
       /\ sent = <<>>

\* C7: a command() on an open port calls read_all once, then writes the
\* command followed by one command terminator, then calls read_until once
\* if wait_for_response and not at all otherwise.
C7_FlushWriteRead ==
    /\ pc = "write" => Len(log) = 1 /\ log[1].op = "read_all"
    /\ pc = "read" /\ task # "response" =>
          /\ Len(log) = 2
          /\ log[1].op = "read_all"
          /\ log[2] = LogEntry("write", cur.cmd \o <<command_terminator>>)
          /\ cur.wait
    /\ (task = "none" /\ call.name = "command" /\ result # NotOpen) =>
          /\ Len(log) = (IF call.wait THEN 3 ELSE 2)
          /\ log[1].op = "read_all"
          /\ log[2] = LogEntry("write", call.cmd \o <<command_terminator>>)
          /\ Len(Replace(log[2].data, command_terminator)) = Len(log[2].data) - 1
          /\ call.wait => log[3].op = "read_until"
          /\ sent = <<log[2].data>>

C7_Witness ==
    /\ task = "none"
    /\ call.name = "command"
    /\ ~call.wait
    /\ Len(log) = 2
    /\ tx > 0

\* C8: a response that is only the terminator is classified as None, and
\* a payload returned as Ok does not contain the terminator.
C8_TerminatorStripped ==
    (task = "none" /\ call.name \in {"command", "response"}) =>
        /\ (log # <<>> /\ log[Len(log)] = LogEntry("read_until", <<response_terminator>>))
              => result = None
        /\ result.kind = "Ok" => ~Contains(result.value, response_terminator)

\* C9: a response that contains the marker ERROR is never returned: the
\* call that read it ends with the device error.
C9_ErrorMarkerRaises ==
    \A i \in 1..Len(log) :
        (log[i].op = "read_until" /\ Contains(log[i].data, ERROR))
        => /\ i = Len(log)
           /\ task = "none"
           /\ result = DeviceError(log[i].data)

C9_Witness ==
    /\ task = "none"
    /\ call.name = "command"
    /\ call.wait
    /\ result.kind = "ValueError: ERROR"
    /\ Contains(log[3].data, ERROR)

\* C10: while the port is closed, flush(), command() and response() fail
\* with the not-open error and make no call that reads or writes the port.
C10_ClosedPortFails ==
    ~is_open =>
        /\ pc \notin {"write", "read"} \/ (pc = "read" /\ task = "response")
        /\ (task = "none" /\ call.name \in {"flush", "command", "response"}) =>
              /\ result = NotOpen
              /\ log = <<>>
              /\ sent = <<>>

C10_Witness ==
    /\ ~is_open
    /\ task = "none"
    /\ call.name = "command"
    /\ result = NotOpen
    /\ rx # <<>>

----------------------------------------------------------------------------
(* Loading, running and resetting a sequence *)

NextRun ==
    \/ DeviceReply
    \/ CommandFlush
    \/ CommandWrite
    \/ CommandRead
    \/ CallPreloadSequence
    \/ PreloadPattern
    \/ CallSequenceReset
    \/ CallRunSequence
    \/ SetTriggerSettings
    \/ SetRunOptions

SpecRun == InitDark /\ [][NextRun]_vars

----------------------------------------------------------------------------
(* Fetching the capabilities again *)

NextCaps ==
    \/ DeviceReply
    \/ DeviceReplyProps
    \/ CommandFlush
    \/ CommandWrite
    \/ CommandRead
    \/ CallGetLedArrayParameters
    \/ GetLedArrayParametersParse
    \/ SetTriggerSettings

SpecCaps == InitDark /\ [][NextCaps]_vars

----------------------------------------------------------------------------
\* C11: a command that awaits its response ends: when the device sends no
\* terminated response the wait is cut short and the call fails with a
\* timeout, it does not block for ever.
C11_WaitedCommandEnds == (call.wait /\ pc = "read") ~> (task = "none" /\ pc = "idle")

----------------------------------------------------------------------------
HasRead(l) == \E i \in 1..Len(l) : l[i].op = "read_until"

\* runSequence has returned after it wrote its run command
RunWrote == call.name = "runSequence" /\ task = "none" /\ sent # <<>>

\* C12 as stated: runSequence reads one response after it wrote the run
\* command exactly when the command is 'rseq' (normal mode), and reads
\* none when it is 'rseqf' (fast mode).
C12_ReadsIffNormal ==
    RunWrote => (HasRead(log) <=> IsCmd(sent[1], "rseq"))

\* C12 amended: runSequence reads no response after it wrote the run
\* command, in the normal mode ('rseq') as in the fast mode ('rseqf'): it
\* calls read_all, writes the command once, and returns.
C12_NoReadInEitherMode ==
    /\ task = "runSequence" => pc # "read"
    /\ RunWrote =>
          /\ Len(sent) = 1
          /\ IsCmd(sent[1], "rseq") \/ IsCmd(sent[1], "rseqf")
          /\ IsCmd(sent[1], "rseqf") <=> use_fast_sequence
          /\ log = <<LogEntry("read_all", <<>>), LogEntry("write", sent[1])>>
          /\ ~HasRead(log)

C12_Witness ==
    /\ RunWrote
    /\ IsCmd(sent[1], "rseq")
    /\ tx > 0
    /\ rx = <<>>

\* C13: a run command is written only while a sequence is loaded: a
\* preloadSequence has returned and no sequenceReset has returned since.
C13_RunOnlyWhenLoaded == RunWrote => sequence_loaded

InReset == call.name = "sequenceReset"

XLine == <<"x", command_terminator>>
ReseqLine == <<"reseq", command_terminator>>

\* C14: sequenceReset writes 'x', reads its response, then writes 'reseq',
\* reads its response, and then sets state_index to 0; when a command of
\* the reset fails nothing more is written and state_index keeps its
\* value (it changes in no other step than the return of a whole reset).
C14_ResetInOrder ==
    /\ [](/\ (task = "sequenceReset" /\ cur.cmd = <<"x">>) => sent \in {<<>>, <<XLine>>}
          /\ (task = "sequenceReset" /\ cur.cmd = <<"reseq">>) =>
                /\ sent \in {<<XLine>>, <<XLine, ReseqLine>>}
                /\ pc = "flush" =>
                      /\ Len(log) = 3
                      /\ log[2] = LogEntry("write", XLine)
                      /\ log[3].op = "read_until"
          /\ (InReset /\ task = "none" /\ result.kind = "None") =>
                /\ sent = <<XLine, ReseqLine>>
                /\ Len(log) = 3
                /\ log[2] = LogEntry("write", ReseqLine)
                /\ log[3].op = "read_until"
                /\ state_index = 0
          /\ (InReset /\ task = "none" /\ result.kind # "None") =>
                /\ sent \in {<<XLine>>, <<XLine, ReseqLine>>}
                /\ log[Len(log)].op = "read_until")
    /\ [][state_index' # state_index =>
             /\ task = "sequenceReset" /\ task' = "none"
             /\ result'.kind = "None"
             /\ sent' = <<XLine, ReseqLine>>
             /\ state_index' = 0]_vars

C14_Witness ==
    /\ InReset
    /\ task = "none"
    /\ result.kind = "None"
    /\ sent = <<XLine, ReseqLine>>
    /\ state_index = 0
    /\ state_sequence_preload # <<>>

\* the mean step of the loaded frame times in ms: the last time over the
\* number of times
MeanStepMs ==
    LET flat == Concat2(time_sequence_s_preload.v)
    IN  <<flat[Len(flat)] * 1000, Len(flat)>>

\* C19: the interval of an 'rseq' command is min_sequence_dt_ms if and
\* only if one of the two trigger inputs is not 0, and otherwise the
\* rounded mean step of the loaded frame times; after it come the
\* iteration count, the two trigger outputs, the two trigger inputs and
\* the two trigger frame times, in this order.
C19_NormalRunCommand ==
    (RunWrote /\ IsCmd(sent[1], "rseq")) =>
        LET one_active == trigger_input_settings[1] # 0 \/ trigger_input_settings[2] # 0
            interval == IF ~one_active THEN Str(Round(MeanStepMs))
                        ELSE IF min_sequence_dt_ms >= 0 THEN Str(min_sequence_dt_ms)
                        ELSE "no interval"
        IN  sent[1] = <<"rseq", interval, call.cmd[1],
                        Str(trigger_output_settings[1]), Str(trigger_output_settings[2]),
                        Str(trigger_input_settings[1]), Str(trigger_input_settings[2]),
                        Str(trigger_frame_time_s[1]), Str(trigger_frame_time_s[2]),
                        command_terminator>>

C19_Witness ==
    /\ RunWrote
    /\ IsCmd(sent[1], "rseq")
    /\ trigger_input_settings = <<0, 2>>
    /\ min_sequence_dt_ms = 20
    /\ Len(Concat2(time_sequence_s_preload.v)) = 3

----------------------------------------------------------------------------
\* the step in which a capability fetch ends with the capabilities of a
\* valid, complete response
FetchSucceeds ==
    /\ task = "getLedArrayParameters" /\ pc = "parse"
    /\ ParamsDict(result.value).ok
    /\ result'.kind = "None"

FetchEnds == task = "getLedArrayParameters" /\ task' = "none"

\* C15: a capability fetch that fails (the response is not valid
\* structured data, lacks a field, or has a count that is no integer, or
\* the command itself fails) leaves every capability field and both trigger
\* settings as they were.
C15_FailedFetchChangesNothing ==
    [][(FetchEnds /\ ~FetchSucceeds) => UNCHANGED <<capVars, color_channels>>]_vars

\* C16: when the response is not valid structured data,
\* getLedArrayParameters ends with a failure reported to its caller, not
\* with a normal return.
C16_ParseFailureReported ==
    [][(task = "getLedArrayParameters" /\ pc = "parse" /\ ~ParamsDict(result.value).ok)
          => result'.kind \notin {"None", "Ok", "running"}]_vars

\* C17: the trigger settings change in no API call: not in a capability
\* fetch or re-fetch, nor in a command, load, run or reset; only the
\* caller's own assignment changes them.
C17_TriggerSettingsKept ==
    [][task # "none" => UNCHANGED <<trigger_output_settings, trigger_input_settings>>]_vars

----------------------------------------------------------------------------
\* the responses that are in the input
Responses(text) == Cardinality({ i \in 1..Len(text) : text[i] = response_terminator })

\* C18: the response a command() returns is the device's reply to that
\* command: when its read_until runs, the first response in the input is
\* the reply to the line this command wrote, and not the reply to a line
\* written before it (the device answers the lines in order, so this is
\* the case exactly when one reply in all is in the input or still due).
C18_ResponseIsOwnReply ==
    [][(task \notin {"none", "response"} /\ ~HasRead(log) /\ HasRead(log'))
          => Responses(rx) + tx = 1]_vars

\* C20: the stored sequence bit depth is 1 or 8 (or not yet set), and
\* after a setSequenceBitDepth call it is the requested depth if the
\* device accepted the 'ssbd' command; a call with another value raises,
\* writes nothing and leaves the stored depth as it was, and so does a
\* call whose 'ssbd' command the device answers with ERROR.
C20_DepthIsLastAccepted ==
    /\ illumination_sequence_bit_depth \in allowed_bit_depths \cup {0}
    /\ (task = "none" /\ call.name = "setSequenceBitDepth") =>
          /\ result.kind = "None" =>
                /\ Str(illumination_sequence_bit_depth) = call.cmd[1]
                /\ sent = <<<<"ssbd", call.cmd[1], command_terminator>>>>
          /\ result.kind = "ValueError: Invalid bit depth" =>
                /\ Str(illumination_sequence_bit_depth) = call.cmd[2]
                /\ sent = <<>>
          /\ result.kind = "ValueError: ERROR" =>
                Str(illumination_sequence_bit_depth) = call.cmd[2]

====
